---- MODULE Spec2Model ----
(***************************************************************************)
(* Model of the OpenEXR / Radiance HDR bridge of src/native/src/lib.rs:    *)
(* the two C-callable entry points write_texture and load_from_path, the   *)
(* file system they act on, the caller's output slots and the heap of      *)
(* pixel buffers whose ownership crosses the boundary.                     *)
(*                                                                         *)
(* The container library (exr) and the Radiance decoder (radiant) are      *)
(* modelled by their contract at the call sites: a file is a header        *)
(* (resolution, channel list) plus channel-major sample arrays.            *)
(***************************************************************************)
EXTENDS Integers, Sequences, FiniteSets, TLC

(* ---------------------------------------------------------------- bounds *)
\* largest width and height of an image that is written with its pixel data
MaxDim == 2
\* number of boundary calls in one run
MaxCalls == 3

(* ------------------------------------------------- enumerations (28..47) *)
ExrEncoding == {"Uncompressed", "RLE", "ZIP1", "ZIP16", "PIZ"}
ExrPixelFormat == {"Unknown", "U32", "F16", "F32", "RGBF32"}
SampleType == {"F16", "F32", "U32"}

\* impl From<SampleType> for ExrPixelFormat
From(value) ==
    CASE value = "F16" -> "F16"
      [] value = "F32" -> "F32"
      [] value = "U32" -> "U32"

(* ------------------------------------------- 32 and 64 bit machine words *)
\* A 64-bit unsigned word is four 16-bit limbs, least significant first.
Limb == 65536
U64(n) == <<n % Limb, n \div Limb, 0, 0>>

AddU64(a, b) ==
    LET s1 == a[1] + b[1]
        s2 == a[2] + b[2] + (s1 \div Limb)
        s3 == a[3] + b[3] + (s2 \div Limb)
        s4 == a[4] + b[4] + (s3 \div Limb)
    IN  <<s1 % Limb, s2 % Limb, s3 % Limb, s4 % Limb>>

RECURSIVE MulU64(_, _)
\* a * n modulo 2^64, n an ordinary natural below 2^31 (shift and add)
MulU64(a, n) ==
    IF n = 0 THEN U64(0)
    ELSE LET rest == MulU64(AddU64(a, a), n \div 2)
         IN  IF n % 2 = 1 THEN AddU64(rest, a) ELSE rest

LessU64(a, b) ==
    \/ a[4] < b[4]
    \/ a[4] = b[4] /\ a[3] < b[3]
    \/ a[4] = b[4] /\ a[3] = b[3] /\ a[2] < b[2]
    \/ a[4] = b[4] /\ a[3] = b[3] /\ a[2] = b[2] /\ a[1] < b[1]

\* the low 32 bits of a word read as an i32 and converted with `as usize`
\* (sign extension to 64 bits)
I32AsUsize(a) ==
    IF a[2] >= 32768 THEN <<a[1], a[2], Limb - 1, Limb - 1>>
                     ELSE <<a[1], a[2], 0, 0>>

\* does the exact value leave the range of a positive i32
OverflowsI32(a) == a[4] # 0 \/ a[3] # 0 \/ a[2] >= 32768

(* ------------------------------------------------------------ the paths *)
\* A path is the sequence of its characters; a path that is not valid
\* UTF-8 carries the replacement marker "?" of its offending byte.
PathA     == <<"a", ".", "e", "x", "r">>
PathDepth == <<"d", ".", "e", "x", "r">>
PathMixed == <<"m", ".", "e", "x", "r">>
PathTrunc == <<"t", ".", "e", "x", "r">>
PathNoExt == <<"n", "o">>
PathHdr   == <<"r", ".", "h", "d", "r">>
PathHDR   == <<"R", ".", "H", "D", "R">>
PathNoDir == <<"x", ".", "y", "/", "z">>
PathBad   == <<"?", ".", "e", "x", "r">>
PathGone  == <<"g", ".", "h", "d", "r">>
PathJunk  == <<"j", ".", "h", "d", "r">>
PathRgba  == <<"c", ".", "e", "x", "r">>

Paths == {PathA, PathDepth, PathMixed, PathTrunc, PathNoExt, PathHdr,
          PathHDR, PathNoDir, PathBad, PathGone, PathJunk, PathRgba}

\* CStr::to_str succeeds
IsUtf8(path) == \A i \in 1..Len(path) : path[i] # "?"

\* Path::file_name: the characters after the last separator
FileName(path) ==
    LET seps == {i \in 1..Len(path) : path[i] = "/"}
        last == IF seps = {} THEN 0
                ELSE CHOOSE i \in seps : \A j \in seps : j <= i
    IN  SubSeq(path, last + 1, Len(path))

\* Path::extension: the part of the file name after its last dot, none when
\* there is no dot or the only dot starts the name; None becomes ""
Extension(path) ==
    LET name == FileName(path)
        dots == {i \in 1..Len(name) : name[i] = "."}
        last == IF dots = {} THEN 0
                ELSE CHOOSE i \in dots : \A j \in dots : j <= i
    IN  IF last <= 1 THEN <<>> ELSE SubSeq(name, last + 1, Len(name))

\* the arm `"hdr" =>` of the match on the extension
IsHdrExtension(extension) == extension = <<"h", "d", "r">>


(* ------------------------------------------------------------ the files *)
\* What the container library and the Radiance decoder see at a path:
\* nothing, bytes neither of them accepts, an EXR file (header with the
\* first layer's resolution and channel list, and one sample array per
\* channel) or a Radiance picture (row-major RGB).  intact = FALSE is a
\* file whose header is readable and whose pixel data are not.
NoFile == [kind |-> "none", w |-> 0, h |-> 0, chans |-> <<>>,
           data |-> <<>>, intact |-> FALSE]
Garbage == [NoFile EXCEPT !.kind = "garbage"]

Channel(name, ty) == [name |-> name, ty |-> ty]

DepthFile == [kind |-> "exr", w |-> 2, h |-> 1,
              chans |-> <<Channel("Z", "F32")>>,
              data |-> << <<7, 8>> >>, intact |-> TRUE]
MixedFile == [kind |-> "exr", w |-> 1, h |-> 1,
              chans |-> <<Channel("A", "F16"), Channel("Z", "F32")>>,
              data |-> << <<1>>, <<2>> >>, intact |-> TRUE]
TruncFile == [kind |-> "exr", w |-> 1, h |-> 2,
              chans |-> <<Channel("G", "F16"), Channel("R", "F16")>>,
              data |-> << <<1, 2>>, <<3, 4>> >>, intact |-> FALSE]
ThreeFile == [kind |-> "exr", w |-> 1, h |-> 2,
              chans |-> <<Channel("U", "U32"), Channel("V", "U32"),
                          Channel("Z", "U32")>>,
              data |-> << <<1, 2>>, <<3, 4>>, <<5, 6>> >>, intact |-> TRUE]
HdrFile   == [kind |-> "hdr", w |-> 1, h |-> 2, chans |-> <<>>,
              data |-> << <<1, 2, 3, 4, 5, 6>> >>, intact |-> TRUE]
HDRFile   == [kind |-> "hdr", w |-> 1, h |-> 1, chans |-> <<>>,
              data |-> << <<9, 8, 7>> >>, intact |-> TRUE]

RgbaFile  == [kind |-> "exr", w |-> 2, h |-> 1,
              chans |-> <<Channel("A", "F16"), Channel("B", "F16"),
                          Channel("G", "F16"), Channel("R", "F16")>>,
              data |-> << <<4, 8>>, <<3, 7>>, <<2, 6>>, <<1, 5>> >>,
              intact |-> TRUE]

InitialFiles ==
    [p \in Paths |->
        CASE p = PathDepth -> DepthFile
          [] p = PathMixed -> MixedFile
          [] p = PathTrunc -> TruncFile
          [] p = PathNoExt -> ThreeFile
          [] p = PathHdr   -> HdrFile
          [] p = PathHDR   -> HDRFile
          [] p = PathJunk  -> Garbage
          [] p = PathRgba  -> RgbaFile
          [] OTHER         -> NoFile]

\* File::create fails below a directory that does not exist
Writable(path) == path # PathNoDir

(* ----------------------------------------------- the container library *)
\* MetaData::read_from_file: the header is readable
HeaderReadable(file) == file.kind = "exr"

\* meta.headers[0].channels.uniform_sample_type
UniformSampleType(chans) ==
    IF \A i \in 1..Len(chans) : chans[i].ty = chans[1].ty
    THEN chans[1].ty ELSE "None"

\* read_first_flat_layer_from_file succeeds
LayerReadable(file) == file.kind = "exr" /\ file.intact

\* radiant::load succeeds
RadianceReadable(file) == file.kind = "hdr" /\ file.intact

\* the order of channel names in a channel list
Alphabet == <<"A", "B", "G", "R", "U", "V", "Z">>
NameRank(name) == CHOOSE i \in 1..Len(Alphabet) : Alphabet[i] = name

RECURSIVE SortByName(_)
\* the writer's channel list: the descriptions sorted by name
SortByName(list) ==
    IF Len(list) <= 1 THEN list
    ELSE LET least == CHOOSE i \in 1..Len(list) :
                        \A j \in 1..Len(list) :
                            NameRank(list[i].name) <= NameRank(list[j].name)
             rest == [k \in 1..(Len(list) - 1) |->
                        IF k < least THEN list[k] ELSE list[k + 1]]
         IN  <<list[least]>> \o SortByName(rest)


(* ------------------------------------------------------ the writer path *)
\* the caller's buffers: k-th sample k (all samples differ), or all zero
BufferKinds == {"ramp", "zeros"}
Buffer(kind, n) == [k \in 1..n |-> IF kind = "ramp" THEN k ELSE 0]

\* widths and heights the caller passes: the small ones, whose images are
\* written with their pixels, and large ones
Widths == (1..MaxDim) \cup {32768}
Heights == (1..MaxDim) \cup {16384, 32768}

\* the match on format with the wildcard arm taken for Unknown alone
WritableFormatLoose(format) == format \in {"U32", "F16", "F32", "RGBF32"}

\* the match on format in write_texture: the three arms that reach write_exr
WritableFormat(format) == format \in {"U32", "F16", "F32"}

\* width * height * 4, exact
ExactLen(width, height) == MulU64(MulU64(U64(width), height), 4)

\* (width * height * 4) as usize: the product wraps in i32
SliceLen(width, height) == I32AsUsize(ExactLen(width, height))

\* size_of::<T>() of the three sample types
SizeOf(ty) == IF ty = "F16" THEN 2 ELSE 4

\* from_raw_parts requires len * size_of::<T>() <= isize::MAX = 2^63 - 1
SliceValid(len, ty) == len[4] < 32768 \div SizeOf(ty)

\* the accessor's index (y * width + x) * 4 + k, in usize
PackIndex(x, y, k, width) ==
    AddU64(MulU64(AddU64(MulU64(U64(y), width), U64(x)), 4), U64(k))

\* a usize that is known to be small, as a natural number
Small(a) == a[1] + a[2] * Limb

\* every index the accessor evaluates is inside the borrowed slice
AccessorInBounds(len, width, height) ==
    LessU64(PackIndex(width - 1, height - 1, 3, width), len)

NoPreset == [compression |-> "-",
             blocks |-> [shape |-> "-", w |-> 0, h |-> 0],
             line_order |-> "-"]
ScanLines == [shape |-> "ScanLines", w |-> 0, h |-> 0]
Tiles(w, h) == [shape |-> "Tiles", w |-> w, h |-> h]

\* the match on encoding with the compressions of the two ZIP arms exchanged
EncodingPresetSwapped(encoding) ==
    CASE encoding = "Uncompressed" ->
            [compression |-> "Uncompressed", blocks |-> ScanLines,
             line_order |-> "Increasing"]
      [] encoding = "RLE" ->
            [compression |-> "RLE", blocks |-> Tiles(64, 64),
             line_order |-> "Unspecified"]
      [] encoding = "ZIP16" ->
            [compression |-> "ZIP1", blocks |-> ScanLines,
             line_order |-> "Increasing"]
      [] encoding = "PIZ" ->
            [compression |-> "PIZ", blocks |-> Tiles(256, 256),
             line_order |-> "Unspecified"]
      [] encoding = "ZIP1" ->
            [compression |-> "ZIP16", blocks |-> ScanLines,
             line_order |-> "Increasing"]

\* the match on encoding in write_exr
EncodingPreset(encoding) ==
    CASE encoding = "Uncompressed" ->
            [compression |-> "Uncompressed", blocks |-> ScanLines,
             line_order |-> "Increasing"]
      [] encoding = "RLE" ->
            [compression |-> "RLE", blocks |-> Tiles(64, 64),
             line_order |-> "Unspecified"]
      [] encoding = "ZIP16" ->
            [compression |-> "ZIP16", blocks |-> ScanLines,
             line_order |-> "Increasing"]
      [] encoding = "PIZ" ->
            [compression |-> "PIZ", blocks |-> Tiles(256, 256),
             line_order |-> "Unspecified"]
      [] encoding = "ZIP1" ->
            [compression |-> "ZIP1", blocks |-> ScanLines,
             line_order |-> "Increasing"]

\* SpecificChannels::rgba: the four channels and the slot of the pixel
\* tuple each one reads
RgbaChannels(ty) ==
    << [name |-> "R", ty |-> ty, slot |-> 0],
       [name |-> "G", ty |-> ty, slot |-> 1],
       [name |-> "B", ty |-> ty, slot |-> 2],
       [name |-> "A", ty |-> ty, slot |-> 3] >>

\* the file Image::from_layer(layer).write().to_file(path) leaves: the
\* channel list sorted by name, and for each channel the samples the
\* accessor returns for the pixels in row-major order
WrittenFile(array, ty, width, height) ==
    LET list == SortByName(RgbaChannels(ty))
    IN  [kind |-> "exr", w |-> width, h |-> height,
         chans |-> [c \in 1..4 |-> Channel(list[c].name, list[c].ty)],
         data |-> [c \in 1..4 |->
                    [i \in 1..(width * height) |->
                        array[Small(PackIndex((i - 1) % width,
                                              (i - 1) \div width,
                                              list[c].slot, width)) + 1]]],
         intact |-> TRUE]

\* a file whose writer stopped after the header
PartialFile(ty, width, height) ==
    [kind |-> "exr", w |-> width, h |-> height,
     chans |-> [c \in 1..4 |->
                 Channel(SortByName(RgbaChannels(ty))[c].name, ty)],
     data |-> <<>>, intact |-> FALSE]

NoSlice == <<>>

\* the status of a call that panicked instead of returning
Panic == 0 - 1

\* How write_exr ends for a slice of len samples.  status Panic is a
\* panic inside the call.  An image larger than MaxDim x MaxDim is never
\* stored whole: its writer fails (the file is then removed by to_file).
WriteExrOutcomes(path, len, ty, width, height, kind, old) ==
    LET panics == {[status |-> Panic, file |-> f] :
                      f \in {Garbage, PartialFile(ty, width, height)}}
        fails  == {[status |-> 1, file |-> NoFile]}
        done   == {[status |-> 0,
                    file |-> WrittenFile(Buffer(kind, 4 * width * height),
                                         ty, width, height)]}
    IN  IF ~AccessorInBounds(len, width, height)
        THEN IF Writable(path) THEN panics
             ELSE {[status |-> Panic, file |-> old]} \cup fails
        ELSE IF ~Writable(path) \/ width > MaxDim \/ height > MaxDim
             THEN fails
             ELSE done


(* ------------------------------------------------------------ the state *)
VARIABLES
    build,          \* "debug" (overflow checks) or "release" (wrapping)
    req,            \* the arguments the caller passes to write_texture
    fs,             \* the file at each path
    width, height, num_channels, format, data,  \* the caller's output slots
    heap,           \* live allocations: address |-> buffer
    handed,         \* addresses stored into *data by calls that returned 0
    status,         \* what the last call returned, Panic if it did not
    call,           \* the last call: its entry point and its path
    slice,          \* length of the slice the last write_texture borrowed
    preset,         \* the Encoding the last write_texture built
    writes,         \* invocations of the container writer
    decodes,        \* invocations of the full-layer decode
    route,          \* the decoder the last load handed the path to
    alive,          \* the process has not panicked
    ncalls

vars == <<build, req, fs, width, height, num_channels, format, data, heap,
          handed, status, call, slice, preset, writes, decodes, route,
          alive, ncalls>>

Null == 0

NoCall == [op |-> "none", path |-> <<>>]

WritePaths == {PathA, PathNoDir, PathBad}

\* the arguments of write_texture: path, width, height, format, encoding
\* and the content of data
Requests ==
    [path : WritePaths, width : Widths, height : Heights,
     format : ExrPixelFormat, encoding : ExrEncoding, kind : BufferKinds]

InitState ==
    /\ build \in {"debug", "release"}
    /\ fs = InitialFiles
    /\ width = 0 /\ height = 0 /\ num_channels = 0
    /\ format = "Unknown" /\ data = Null
    /\ heap = <<>>
    /\ handed = {}
    /\ status = 0
    /\ call = NoCall
    /\ slice = NoSlice
    /\ preset = NoPreset
    /\ writes = 0 /\ decodes = 0
    /\ route = "none"
    /\ alive = TRUE
    /\ ncalls = 0

(* -------------------------------------------------------- write_texture *)
\* How write_texture ends: the status, the file at path, the borrowed
\* slice, and whether write_exr ran.
WriteTextureOutcomes(path, w, h, fmt, encoding, kind) ==
    LET quiet(st) == {[status |-> st, file |-> fs[path], slice |-> NoSlice,
                       wrote |-> FALSE]}
        len == SliceLen(w, h)
        runs == {[status |-> o.status, file |-> o.file, slice |-> len,
                  wrote |-> TRUE] :
                    o \in WriteExrOutcomes(path, len, fmt, w, h, kind,
                                           fs[path])}
    IN  IF ~IsUtf8(path) THEN quiet(1)
        ELSE IF ~WritableFormat(fmt) THEN quiet(1)
        ELSE IF build = "debug" /\ OverflowsI32(ExactLen(w, h))
             THEN quiet(Panic)     \* attempt to multiply with overflow
        ELSE IF ~SliceValid(len, fmt)
             \* undefined behaviour of from_raw_parts: the call may stop
             \* there or go on with the oversized slice
             THEN {[status |-> Panic, file |-> fs[path], slice |-> len,
                    wrote |-> FALSE]} \cup runs
        ELSE runs

WriteTexture ==
    /\ alive /\ ncalls < MaxCalls
    /\ \E o \in WriteTextureOutcomes(req.path, req.width, req.height,
                                     req.format, req.encoding, req.kind) :
        /\ status' = o.status
        /\ alive' = (o.status # Panic)
        /\ fs' = [fs EXCEPT ![req.path] = o.file]
        /\ slice' = o.slice
        /\ writes' = IF o.wrote THEN writes + 1 ELSE writes
        /\ preset' = IF o.wrote THEN EncodingPreset(req.encoding)
                                ELSE NoPreset
    /\ call' = [op |-> "write", path |-> req.path]
    /\ ncalls' = ncalls + 1
    /\ UNCHANGED <<build, req, width, height, num_channels, format, data,
                   heap, handed, decodes, route>>

(* ------------------------------------------------------ the reader path *)
\* the first free address of the allocator
NewAddr(h) == CHOOSE a \in 1..(Cardinality(DOMAIN h) + 1) : a \notin DOMAIN h

Alloc(h, buffer) == (NewAddr(h) :> buffer) @@ h

\* a value that is never dropped
DropNothing(h, a) == h

\* a value going out of scope frees its allocation
Drop(h, a) == [b \in (DOMAIN h) \ {a} |-> h[b]]

\* the decoded, channel-major layer read_first_flat_layer_from_file returns
DecodedLayer(file) == [ty |-> "layer", samples |-> <<>>]

\* the channels of a pixel stored in reverse list order
FlatIndexReversed(i, nc, channel_index) == i * nc + (nc - 1 - channel_index)

\* flat_data[i * num_channels + channel_index]
FlatIndex(i, nc, channel_index) == i * nc + channel_index

RECURSIVE FillPixel(_, _, _, _)
\* the inner loop of load_exr_*: the channels of pixel i, in list order
FillPixel(flat, list, i, channel_index) ==
    IF channel_index = Len(list) THEN flat
    ELSE FillPixel(
            [flat EXCEPT ![FlatIndex(i, Len(list), channel_index) + 1] =
                            list[channel_index + 1][i + 1]],
            list, i, channel_index + 1)

RECURSIVE FillPixels(_, _, _, _)
\* the outer loop of load_exr_*: for i in 0 .. w*h
FillPixels(flat, list, i, n) ==
    IF i = n THEN flat
    ELSE FillPixels(FillPixel(flat, list, i, 0), list, i + 1, n)

\* load_exr_f16, load_exr_f32, load_exr_u32 after a successful decode:
\* (flat_data, num_channels)
load_exr(file) ==
    LET w == file.w
        h == file.h
        nc == Len(file.data)
        zeroed == [k \in 1..(w * h * nc) |-> 0]
    IN  [flat_data |-> FillPixels(zeroed, file.data, 0, w * h),
         num_channels |-> nc]

\* the non-uniform arm reporting the channel count of the header
NonUniformCounted(file) ==
    [ok |-> FALSE, width |-> file.w, height |-> file.h,
     num_channels |-> Len(file.chans), format |-> "Unknown",
     decoded |-> FALSE]

\* the arm of load for a header whose channels are not of one sample type
NonUniform(file) ==
    [ok |-> FALSE, width |-> file.w, height |-> file.h, num_channels |-> 0,
     format |-> "Unknown", decoded |-> FALSE]

\* the arm of load for a header that cannot be read
HeaderError ==
    [ok |-> FALSE, width |-> 0, height |-> 0, num_channels |-> 0,
     format |-> "Unknown", decoded |-> FALSE]

\* the match on the extension in load: which decoder gets the path
Route(path) == IF IsHdrExtension(Extension(path)) THEN "radiant" ELSE "exr"

\* load: the new values of the four output references, the heap at return
\* and the pointer returned (Null with an Err)
load(path, file, h) ==
    LET old == [ok |-> FALSE, width |-> width, height |-> height,
                num_channels |-> num_channels, format |-> format,
                decoded |-> FALSE]
        with(r, hp, ptr) ==
            [ok |-> r.ok, width |-> r.width, height |-> r.height,
             num_channels |-> r.num_channels, format |-> r.format,
             decoded |-> r.decoded, heap |-> hp, ptr |-> ptr]
    IN  IF Route(path) = "radiant"
        THEN IF ~RadianceReadable(file)
             THEN with(old, h, Null)           \* File::open or radiant::load
             ELSE LET h1 == Alloc(h, [ty |-> "RGBF32",
                                      samples |-> file.data[1]])
                  IN  with([old EXCEPT !.ok = TRUE, !.width = file.w,
                                       !.height = file.h,
                                       !.num_channels = 3,
                                       !.format = "RGBF32"],
                           h1, NewAddr(h))
        ELSE IF ~HeaderReadable(file) THEN with(HeaderError, h, Null)
        ELSE IF UniformSampleType(file.chans) = "None"
             THEN with(NonUniform(file), h, Null)
        ELSE LET sample_type == UniformSampleType(file.chans)
                 sized == [old EXCEPT !.width = file.w, !.height = file.h,
                                      !.format = From(sample_type),
                                      !.decoded = TRUE]
             IN  IF ~LayerReadable(file) THEN with(sized, h, Null)
                 ELSE LET image == NewAddr(h)
                          h1 == Alloc(h, DecodedLayer(file))
                          res == load_exr(file)
                          ret == NewAddr(h1)
                          h2 == Alloc(h1, [ty |-> sample_type,
                                           samples |-> res.flat_data])
                      IN  with([sized EXCEPT !.ok = TRUE,
                                    !.num_channels = res.num_channels],
                               Drop(h2, image), ret)

\* the store into *data made with an Err as well (a null pointer)
StoreDataAlways(r, old) == r.ptr

\* *data = unwrap_or_return_err!(load(..)): the store happens with Ok only
StoreData(r, old) == IF r.ok THEN r.ptr ELSE old

LoadFromPath(path) ==
    /\ alive /\ ncalls < MaxCalls
    /\ IF ~IsUtf8(path)
       THEN /\ status' = 1
            /\ route' = "none"
            /\ UNCHANGED <<width, height, num_channels, format, data, heap,
                           handed, decodes>>
       ELSE LET r == load(path, fs[path], heap)
            IN  /\ width' = r.width
                /\ height' = r.height
                /\ num_channels' = r.num_channels
                /\ format' = r.format
                /\ data' = StoreData(r, data)
                /\ heap' = r.heap
                /\ handed' = IF r.ok THEN handed \cup {r.ptr} ELSE handed
                /\ decodes' = IF r.decoded THEN decodes + 1 ELSE decodes
                /\ status' = IF r.ok THEN 0 ELSE 1
                /\ route' = Route(path)
    /\ call' = [op |-> "load", path |-> path]
    /\ ncalls' = ncalls + 1
    /\ UNCHANGED <<build, req, fs, slice, preset, writes, alive>>

(* --------------------------------------------------- the specifications *)
\* A caller that writes one texture, any number of times, and loads the
\* path it wrote to.
Init == InitState /\ req \in Requests

Next ==
    \/ WriteTexture
    \/ LoadFromPath(req.path)

Spec == Init /\ [][Next]_vars

\* A caller that loads the files of the initial file system, in any order.
InitLoad ==
    /\ InitState
    /\ req = [path |-> PathA, width |-> 1, height |-> 1, format |-> "F32",
              encoding |-> "Uncompressed", kind |-> "ramp"]

NextLoad == \E path \in Paths : LoadFromPath(path)

SpecLoad == InitLoad /\ [][NextLoad]_vars


(* ------------------------------------------------------------ the claims *)
\* the step is a call of load_from_path, of write_texture
LoadStep == ncalls' = ncalls + 1 /\ call'.op = "load"
WriteStep == ncalls' = ncalls + 1 /\ call'.op = "write"

ReadableFormats == {"U32", "F16", "F32", "RGBF32"}

\* C1: every call of load_from_path that returns a non-zero status leaves
\* width = 0, height = 0, numChannels = 0, format = Unknown and dataOut at
\* the value it had before the call, whatever the cause of the failure.
C1_FailureZeroesOutputs ==
    [][(LoadStep /\ status' # 0) =>
        /\ width' = 0 /\ height' = 0 /\ num_channels' = 0
        /\ format' = "Unknown"
        /\ data' = data]_vars

\* C2: a successful write_texture(path, W, H, format, mode, b) followed by
\* load_from_path(path) succeeds and reports width W, height H, 4 channels,
\* the same format and a buffer r of length W*H*4 with r[k] = b[k] for all k.
C2_RoundTrip ==
    [][(call.op = "write" /\ status = 0 /\ LoadStep
            /\ call'.path = call.path) =>
        /\ status' = 0
        /\ width' = req.width /\ height' = req.height
        /\ num_channels' = 4
        /\ format' = req.format
        /\ data' \in DOMAIN heap'
        /\ heap'[data'].samples =
              Buffer(req.kind, req.width * req.height * 4)]_vars

\* C3: write_texture with format RGBF32 or Unknown returns 1 for every
\* encoding, width, height and data, without invoking the container writer
\* and without creating or modifying a file.
C3_UnwritableFormatRejected ==
    [][(WriteStep /\ req.format \in {"RGBF32", "Unknown"}) =>
        /\ status' = 1
        /\ writes' = writes
        /\ fs' = fs]_vars

C3_Witness ==
    /\ call.op = "write" /\ req.format = "RGBF32" /\ IsUtf8(req.path)
    /\ Writable(req.path) /\ req.width <= MaxDim /\ req.height <= MaxDim
    /\ status = 1 /\ writes = 0 /\ fs[req.path] = NoFile

\* the table of the encoding presets
PresetTable(mode) ==
    CASE mode = "Uncompressed" -> <<"Uncompressed", ScanLines, "Increasing">>
      [] mode = "RLE"   -> <<"RLE", Tiles(64, 64), "Unspecified">>
      [] mode = "ZIP1"  -> <<"ZIP1", ScanLines, "Increasing">>
      [] mode = "ZIP16" -> <<"ZIP16", ScanLines, "Increasing">>
      [] mode = "PIZ"   -> <<"PIZ", Tiles(256, 256), "Unspecified">>

\* C4: the encoding preset write_exr uses is the table's triple for the
\* EncodingMode, whatever the width, height, sample type and pixel content,
\* and the same on every call.
C4_PresetIsTable ==
    [][(WriteStep /\ writes' = writes + 1) =>
        <<preset'.compression, preset'.blocks, preset'.line_order>>
            = PresetTable(req.encoding)]_vars

C4_Witness ==
    /\ call.op = "write" /\ status = 0 /\ writes = 2
    /\ req.encoding = "ZIP16" /\ preset.compression = "ZIP16"
    /\ req.format = "F16" /\ req.width = MaxDim

\* C5: a successful read of a primary-format file whose first layer has
\* size w*h and C channels reports numChannels = C and returns a buffer of
\* length exactly w*h*C with flat[i*C + c] = channelArray[c][i] for every
\* pixel i and channel c, c in the order of the container's channel list.
C5_Interleaved ==
    (call.op = "load" /\ status = 0 /\ route = "exr") =>
        LET f == fs[call.path]
            C == Len(f.chans)
            flat == heap[data].samples
        IN  /\ C >= 1
            /\ num_channels = C
            /\ width = f.w /\ height = f.h
            /\ heap[data].ty = f.chans[1].ty
            /\ Len(flat) = f.w * f.h * C
            /\ \A i \in 0..(f.w * f.h - 1) : \A c \in 0..(C - 1) :
                    flat[i * C + c + 1] = f.data[c + 1][i + 1]

C5_Witness ==
    /\ call.op = "load" /\ status = 0 /\ route = "exr"
    /\ call.path = PathNoExt /\ num_channels = 3 /\ format = "U32"
    /\ \E a \in DOMAIN heap : heap[a].ty = "F16" /\ Len(heap[a].samples) = 8

\* C6: loading a primary-format file whose header is readable and whose
\* channels do not share one sample type returns non-zero with
\* numChannels = 0 and format = Unknown, without invoking the full-layer
\* decode and without allocating a buffer.
C6_NonUniformRejected ==
    [][(LoadStep /\ route' = "exr" /\ HeaderReadable(fs[call'.path])
            /\ UniformSampleType(fs[call'.path].chans) = "None") =>
        /\ status' # 0
        /\ num_channels' = 0
        /\ format' = "Unknown"
        /\ decodes' = decodes
        /\ heap' = heap]_vars

C6_Witness ==
    /\ call.op = "load" /\ call.path = PathMixed /\ status = 1
    /\ width = 1 /\ height = 1 /\ format = "Unknown" /\ handed # {}

\* the lower-case spelling of an extension
LowerCase(ext) ==
    [i \in 1..Len(ext) |->
        CASE ext[i] = "H" -> "h"
          [] ext[i] = "D" -> "d"
          [] ext[i] = "R" -> "r"
          [] OTHER -> ext[i]]

\* C7: the dispatch in load is a case-insensitive match on the extension:
\* every spelling of hdr goes to the Radiance decoder, no extension and
\* every other extension go to the EXR reader.
C7_CaseInsensitiveDispatch ==
    (call.op = "load" /\ IsUtf8(call.path)) =>
        route = IF LowerCase(Extension(call.path)) = <<"h", "d", "r">>
                THEN "radiant" ELSE "exr"

\* C8 as stated: after any sequence of load_from_path calls on the same
\* output slots, format = Unknown implies dataOut = null, and a call
\* returning 0 leaves format in {U32, F16, F32, RGBF32}.
C8_UnknownMeansNull ==
    /\ format = "Unknown" => data = Null
    /\ (call.op = "load" /\ status = 0) => format \in ReadableFormats

\* C8 amended: a call of load_from_path that leaves format = Unknown
\* returns non-zero and stores nothing into dataOut, which keeps the value
\* it had before the call; a call returning 0 leaves format in
\* {U32, F16, F32, RGBF32} and dataOut non-null.
C8_UnknownStoresNothing ==
    [][LoadStep =>
        /\ format' = "Unknown" => (status' # 0 /\ data' = data)
        /\ status' = 0 => (format' \in ReadableFormats /\ data' # Null)]_vars

C8_Witness ==
    /\ call.op = "load" /\ status = 1
    /\ format = "Unknown" /\ data # Null /\ data \in handed

\* C9: the live core-allocated buffers are exactly the pointers stored
\* into dataOut by the calls that returned 0; a successful call adds exactly
\* one buffer and leaves the earlier ones alone, a failing call leaves no
\* allocation behind.
C9_Ownership ==
    [][LoadStep =>
        /\ DOMAIN heap' = handed'
        /\ \A a \in DOMAIN heap : a \in DOMAIN heap' /\ heap'[a] = heap[a]
        /\ status' = 0 =>
              /\ data' \notin DOMAIN heap
              /\ DOMAIN heap' = DOMAIN heap \cup {data'}
        /\ status' # 0 => heap' = heap]_vars

C9_Witness ==
    /\ call.op = "load" /\ status = 1 /\ decodes = 2
    /\ \E a \in handed : heap[a].ty = "RGBF32"
    /\ \E a \in handed : heap[a].ty = "F32"

\* C10: for positive i32 width and height and a writable format,
\* write_texture borrows a slice of exactly width*height*4 samples, and
\* every index (y*width + x)*4 + k the accessor evaluates is below the
\* borrowed slice's length.
C10_SliceCoversAccessor ==
    (call.op = "write" /\ IsUtf8(req.path) /\ WritableFormat(req.format)) =>
        /\ slice = ExactLen(req.width, req.height)
        /\ AccessorInBounds(slice, req.width, req.height)

====
